---- MODULE Spec2Model ----
(***************************************************************************)
(* A model of zadanie1.py: the contact data model (Field, Name, Phone,     *)
(* Birthday, Record, AddressBook), its pickle persistence and the command  *)
(* loop of main().                                                         *)
(*                                                                         *)
(* A Python str is modelled as a sequence of one-character strings, so     *)
(* that filtering, lower-casing, prefix tests and splitting are computed   *)
(* character by character as the code computes them.                       *)
(***************************************************************************)
EXTENDS Integers, Sequences, FiniteSets, TLC

VARIABLES
    data,   \* AddressBook.data: the name -> Record mapping, in insertion order
    files,  \* the storage: what the file address_book.pkl holds, if it exists
    last,   \* the call made by the last step, with its arguments and the exception raised
    ret,    \* the value returned by the last call
    out,    \* the last call made on the presentation boundary (or print)
    pc      \* position of main(): "start", "loop", "done", "crashed"; "api" outside main

vars == <<data, files, last, ret, out, pc>>

(***************************************************************************)
(* Bounds of the model.                                                    *)
(***************************************************************************)
MaxPhones == 2        \* phones per Record in Spec and SpecSearch
MaxStorePhones == 1   \* phones per Record in SpecStore

(***************************************************************************)
(* Characters and str methods.                                             *)
(***************************************************************************)
AsciiDigits == {"0", "1", "2", "3", "4", "5", "6", "7", "8", "9"}

\* A character outside 0-9 for which str.isdigit() is True (U+00B2).
SuperscriptTwo == "²"

UpperChars == <<"A", "B", "C", "D", "E", "F", "G", "H", "I", "J", "K", "L", "M",
                "N", "O", "P", "Q", "R", "S", "T", "U", "V", "W", "X", "Y", "Z">>

LowerChars == <<"a", "b", "c", "d", "e", "f", "g", "h", "i", "j", "k", "l", "m",
                "n", "o", "p", "q", "r", "s", "t", "u", "v", "w", "x", "y", "z">>

\* str.isdigit on one character: the ASCII digits and the other Unicode digits.
IsDigitChar(c) == c \in AsciiDigits \cup {SuperscriptTwo}

\* str.isdigit: non-empty and every character is a digit.
IsDigit(s) == Len(s) > 0 /\ \A i \in 1..Len(s) : IsDigitChar(s[i])

IsSpaceChar(c) == c = " "

LowerChar(c) ==
    IF \E i \in 1..Len(UpperChars) : UpperChars[i] = c
    THEN LowerChars[CHOOSE i \in 1..Len(UpperChars) : UpperChars[i] = c]
    ELSE c

\* str.lower
StrLower(s) == [i \in 1..Len(s) |-> LowerChar(s[i])]

\* str.startswith
StartsWith(s, p) == Len(s) >= Len(p) /\ SubSeq(s, 1, Len(p)) = p

\* str.split() with no argument: the maximal runs of non-whitespace characters.
RECURSIVE SplitFrom(_, _, _)
SplitFrom(s, i, cur) ==
    IF i > Len(s)
    THEN IF cur = <<>> THEN <<>> ELSE <<cur>>
    ELSE IF IsSpaceChar(s[i])
         THEN (IF cur = <<>> THEN <<>> ELSE <<cur>>) \o SplitFrom(s, i + 1, <<>>)
         ELSE SplitFrom(s, i + 1, Append(cur, s[i]))

Split(s) == SplitFrom(s, 1, <<>>)

(***************************************************************************)
(* Values.  A birthday value is None, a str or a date object; the three    *)
(* share one record shape.                                                 *)
(***************************************************************************)
ZeroDate == [y |-> 0, m |-> 0, d |-> 0]

NoneValue == [kind |-> "None", s |-> <<>>, date |-> ZeroDate]

StrValue(s) == [kind |-> "str", s |-> s, date |-> ZeroDate]

DateValue(y, m, d) == [kind |-> "date", s |-> <<>>, date |-> [y |-> y, m |-> m, d |-> d]]

\* Python truthiness of a value: None and the empty str are false.
Truthy(v) == v.kind = "date" \/ (v.kind = "str" /\ v.s # <<>>)

(***************************************************************************)
(* Field, Name, Phone.  A Field object is modelled by its _value.          *)
(***************************************************************************)
\* Field.__init__: stores the value; validate is not called.
FieldInit(value) == value

\* Field.validate: the base hook accepts everything (Name and Phone inherit it).
FieldValidate(value) == "none"

\* Field.value setter for a Name or a Phone: validate, then assign the new value as given.
FieldSetValue(old, new) ==
    IF FieldValidate(new) = "none"
    THEN [exc |-> "none", value |-> new]
    ELSE [exc |-> FieldValidate(new), value |-> old]

\* Phone.__init__, line 34: keep the characters for which str.isdigit holds.
PhoneNormalize(phone) == SelectSeq(phone, IsDigitChar)

\* Phone.__init__: the normalized value when it has 9 characters, else ValueError.
PhoneInit(phone) ==
    IF Len(PhoneNormalize(phone)) = 9
    THEN [exc |-> "none", value |-> FieldInit(PhoneNormalize(phone))]
    ELSE [exc |-> "ValueError", value |-> <<>>]

(***************************************************************************)
(* The calendar of datetime: proleptic Gregorian, years 1..9999.           *)
(***************************************************************************)
IsLeap(y) == y % 4 = 0 /\ (y % 100 # 0 \/ y % 400 = 0)

DaysInMonth(y, m) ==
    IF m = 2 THEN (IF IsLeap(y) THEN 29 ELSE 28)
    ELSE IF m \in {4, 6, 9, 11} THEN 30 ELSE 31

\* Whether datetime(y, m, d) can be constructed (else ValueError).
ValidDate(y, m, d) ==
    /\ y >= 1 /\ y <= 9999
    /\ m >= 1 /\ m <= 12
    /\ d >= 1 /\ d <= DaysInMonth(y, m)

RECURSIVE DaysBeforeMonth(_, _)
DaysBeforeMonth(y, m) ==
    IF m <= 1 THEN 0 ELSE DaysBeforeMonth(y, m - 1) + DaysInMonth(y, m - 1)

DaysBeforeYear(y) ==
    (y - 1) * 365 + ((y - 1) \div 4) - ((y - 1) \div 100) + ((y - 1) \div 400)

\* date.toordinal
ToOrdinal(date) == DaysBeforeYear(date.y) + DaysBeforeMonth(date.y, date.m) + date.d

(***************************************************************************)
(* Birthday.                                                               *)
(***************************************************************************)
DigitValue(c) == CHOOSE n \in 0..9 : <<"0", "1", "2", "3", "4", "5", "6", "7", "8", "9">>[n + 1] = c

RECURSIVE ParseInt(_)
ParseInt(s) ==
    IF s = <<>> THEN 0
    ELSE ParseInt(SubSeq(s, 1, Len(s) - 1)) * 10 + DigitValue(s[Len(s)])

AllAsciiDigits(s) == \A i \in 1..Len(s) : s[i] \in AsciiDigits

\* The directive %m: 1[0-2] | 0[1-9] | [1-9]
MatchesMonth(s) ==
    /\ Len(s) \in {1, 2}
    /\ AllAsciiDigits(s)
    /\ ParseInt(s) >= 1 /\ ParseInt(s) <= 12

\* The directive %d: 3[01] | [12]\d | 0[1-9] | [1-9] | " "[1-9]
MatchesDay(s) ==
    \/ /\ Len(s) \in {1, 2}
       /\ AllAsciiDigits(s)
       /\ ParseInt(s) >= 1 /\ ParseInt(s) <= 31
    \/ /\ Len(s) = 2
       /\ s[1] = " "
       /\ s[2] \in AsciiDigits \ {"0"}

\* The text of the day field as int() reads it.
DayNumber(s) == IF s[1] = " " THEN ParseInt(Tail(s)) ELSE ParseInt(s)

\* Whether datetime.strptime(s, "%Y-%m-%d") succeeds: four digits, a dash, a month,
\* a dash, a day, nothing left over, and the three numbers make a date.
StrptimeOk(s) ==
    /\ Len(s) >= 8
    /\ AllAsciiDigits(SubSeq(s, 1, 4))
    /\ s[5] = "-"
    /\ \E j \in {7, 8} :
          /\ j < Len(s)
          /\ s[j] = "-"
          /\ MatchesMonth(SubSeq(s, 6, j - 1))
          /\ MatchesDay(SubSeq(s, j + 1, Len(s)))
          /\ ValidDate(ParseInt(SubSeq(s, 1, 4)), ParseInt(SubSeq(s, 6, j - 1)),
                       DayNumber(SubSeq(s, j + 1, Len(s))))

\* Birthday.validate: strptime of a str; a value that is no str makes strptime raise
\* TypeError, which the except clause does not catch.
BirthdayValidate(value) ==
    IF value.kind # "str" THEN "TypeError"
    ELSE IF StrptimeOk(value.s) THEN "none" ELSE "ValueError"

\* Birthday(value): Field.__init__ is inherited, so the value is stored unvalidated.
BirthdayInit(value) == [exc |-> "none", value |-> FieldInit(value)]

\* Field.value setter on a Birthday: validate, then assign.
BirthdaySetValue(old, new) ==
    IF BirthdayValidate(new) = "none"
    THEN [exc |-> "none", value |-> new]
    ELSE [exc |-> BirthdayValidate(new), value |-> old]

\* Record.days_to_birthday with datetime.now().date() = today.
days_to_birthday(rec, today) ==
    IF rec.birthday.kind = "None"
    THEN [exc |-> "none", kind |-> "None", n |-> 0]
    ELSE IF rec.birthday.kind = "str"
    THEN [exc |-> "AttributeError", kind |-> "none", n |-> 0]
    ELSE LET m == rec.birthday.date.m
             d == rec.birthday.date.d
         IN  IF ~ValidDate(today.y, m, d)
             THEN [exc |-> "ValueError", kind |-> "none", n |-> 0]
             ELSE IF ToOrdinal(today) > ToOrdinal([y |-> today.y, m |-> m, d |-> d])
             THEN IF ~ValidDate(today.y + 1, m, d)
                  THEN [exc |-> "ValueError", kind |-> "none", n |-> 0]
                  ELSE [exc |-> "none", kind |-> "int",
                        n |-> ToOrdinal([y |-> today.y + 1, m |-> m, d |-> d])
                              - ToOrdinal(today)]
             ELSE [exc |-> "none", kind |-> "int",
                   n |-> ToOrdinal([y |-> today.y, m |-> m, d |-> d]) - ToOrdinal(today)]

(***************************************************************************)
(* Record.                                                                 *)
(***************************************************************************)
\* Record.__init__: a Birthday is built (unvalidated) only from a truthy value.
RecordInit(name_value, birthday_value) ==
    [name |-> FieldInit(name_value),
     birthday |-> IF Truthy(birthday_value) THEN BirthdayInit(birthday_value).value
                    ELSE NoneValue,
     phones |-> <<>>]

\* Record.add_phone: construct the Phone, then append it.
add_phone(rec, phone_value) ==
    IF PhoneInit(phone_value).exc = "none"
    THEN [exc |-> "none",
          rec |-> [rec EXCEPT !.phones = Append(@, PhoneInit(phone_value).value)]]
    ELSE [exc |-> PhoneInit(phone_value).exc, rec |-> rec]

\* Index of the first phone equal to the value, 0 when there is none.
FirstIndex(phones, value) ==
    IF \E i \in 1..Len(phones) : phones[i] = value
    THEN CHOOSE i \in 1..Len(phones) :
            phones[i] = value /\ \A j \in 1..(i - 1) : phones[j] # value
    ELSE 0

\* Record.remove_phone: remove the first phone whose value equals phone_value.
remove_phone(rec, phone_value) ==
    LET i == FirstIndex(rec.phones, phone_value)
    IN  IF i = 0
        THEN rec
        ELSE [rec EXCEPT !.phones = SubSeq(@, 1, i - 1) \o SubSeq(@, i + 1, Len(@))]

\* Record.edit_phone: assign through the Field setter to the first matching phone.
edit_phone(rec, old_phone_value, new_phone_value) ==
    LET i == FirstIndex(rec.phones, old_phone_value)
    IN  IF i = 0
        THEN [exc |-> "none", rec |-> rec]
        ELSE LET set == FieldSetValue(rec.phones[i], new_phone_value)
             IN  [exc |-> set.exc, rec |-> [rec EXCEPT !.phones[i] = set.value]]

(***************************************************************************)
(* AddressBook.  data is a sequence of entries [key, rec], keys unique, in *)
(* dict insertion order.                                                   *)
(***************************************************************************)
Keys(d) == {d[i].key : i \in 1..Len(d)}

IndexOf(d, key) == CHOOSE i \in 1..Len(d) : d[i].key = key

Lookup(d, key) == d[IndexOf(d, key)].rec

\* dict assignment d[key] = rec: replace in place, or append a new key.
DictSet(d, key, rec) ==
    IF key \in Keys(d)
    THEN [d EXCEPT ![IndexOf(d, key)].rec = rec]
    ELSE Append(d, [key |-> key, rec |-> rec])

\* AddressBook.add_record
add_record(d, record) == DictSet(d, record.name, record)

\* The criterion keys 'name' and 'phone' of search_records.
NameField == <<"n", "a", "m", "e">>

PhoneField == <<"p", "h", "o", "n", "e">>

\* The inner loop of search_records over criteria.items(), from item i on: a 'name'
\* criterion that differs or a 'phone' criterion no phone equals ends it with False.
RECURSIVE Matches(_, _, _)
Matches(rec, criteria, i) ==
    IF i > Len(criteria) THEN TRUE
    ELSE IF criteria[i].field = NameField /\ rec.name # criteria[i].value THEN FALSE
    ELSE IF criteria[i].field = PhoneField
    THEN IF \E j \in 1..Len(rec.phones) : rec.phones[j] = criteria[i].value
         THEN Matches(rec, criteria, i + 1)
         ELSE FALSE
    ELSE Matches(rec, criteria, i + 1)

\* The records of a book, in its iteration order (self.data.values()).
Values(d) == [i \in 1..Len(d) |-> d[i].rec]

\* A version of search_records that keeps a record when any criterion holds.
search_records_any(d, criteria) ==
    LET one(rec) == \E i \in 1..Len(criteria) : Matches(rec, <<criteria[i]>>, 1)
    IN  SelectSeq(Values(d), one)

\* AddressBook.search_records: criteria is the sequence of the dict's items.
search_records(d, criteria) ==
    LET match(rec) == Matches(rec, criteria, 1)
    IN  SelectSeq(Values(d), match)

(***************************************************************************)
(* Persistence.  pickle.dump writes the object graph of self.data as a     *)
(* flat stream: the dict's length, then per item its key and the Record's  *)
(* attributes (name, birthday, the length of phones and each Phone's       *)
(* _value).  pickle.load rebuilds the objects from the stream by restoring *)
(* their attributes; no __init__ and no validation runs.                   *)
(***************************************************************************)
Frame(tag, s, n, date) == [tag |-> tag, s |-> s, n |-> n, date |-> date]

DumpValue(v) == Frame(v.kind, v.s, 0, v.date)

DumpRecord(rec) ==
    <<Frame("Record", <<>>, 0, ZeroDate), Frame("Name", rec.name, 0, ZeroDate),
      DumpValue(rec.birthday), Frame("list", <<>>, Len(rec.phones), ZeroDate)>>
    \o [j \in 1..Len(rec.phones) |-> Frame("Phone", rec.phones[j], 0, ZeroDate)]

RECURSIVE DumpItems(_, _)
DumpItems(d, i) ==
    IF i > Len(d) THEN <<>>
    ELSE <<Frame("key", d[i].key, 0, ZeroDate)>> \o DumpRecord(d[i].rec)
         \o DumpItems(d, i + 1)

\* A version of pickle.dumps that loses every Record's birthday.
DumpsNoBirthday(d) ==
    <<Frame("dict", <<>>, Len(d), ZeroDate)>>
    \o DumpItems([i \in 1..Len(d) |-> [d[i] EXCEPT !.rec.birthday = NoneValue]], 1)

\* pickle.dumps(self.data)
Dumps(d) == <<Frame("dict", <<>>, Len(d), ZeroDate)>> \o DumpItems(d, 1)

LoadValue(f) == [kind |-> f.tag, s |-> f.s, date |-> f.date]

\* Read `count` items of the dict from position i of the stream.
RECURSIVE LoadItems(_, _, _)
LoadItems(bytes, i, count) ==
    IF count = 0 THEN <<>>
    ELSE LET n == bytes[i + 4].n
             rec == [name |-> bytes[i + 2].s,
                     birthday |-> LoadValue(bytes[i + 3]),
                     phones |-> [j \in 1..n |-> bytes[i + 4 + j].s]]
         IN  <<[key |-> bytes[i].s, rec |-> rec]>>
             \o LoadItems(bytes, i + 5 + n, count - 1)

\* pickle.loads
Loads(bytes) == LoadItems(bytes, 2, bytes[1].n)

\* AddressBook.save_to_file: open(filename, 'wb') and pickle.dump.
save_to_file(d) == [exists |-> TRUE, bytes |-> Dumps(d)]

\* AddressBook.load_from_file: the unpickled mapping, or {} when the file is not found.
load_from_file(file) == IF file.exists THEN Loads(file.bytes) ELSE <<>>

(***************************************************************************)
(* The call record kept in `last`, the returned value and the output.      *)
(***************************************************************************)
NoCall ==
    [op |-> "none", key |-> <<>>, a |-> <<>>, b |-> <<>>, bv |-> NoneValue,
     today |-> ZeroDate, crit |-> <<>>, line |-> <<>>, exc |-> "none", prev |-> "none"]

Call(op) == [NoCall EXCEPT !.op = op]

NoRet == [kind |-> "none", n |-> 0, s |-> <<>>, recs |-> <<>>]

NoOut == [call |-> "none", msg |-> "", recs |-> <<>>]

\* The file does not exist.
Missing == [exists |-> FALSE, bytes |-> <<>>]

(***************************************************************************)
(* Inputs of the Record and Phone operations.                              *)
(***************************************************************************)
Al == <<"a", "l">>

Bob == <<"b", "o", "b">>

Names == {Al, Bob}

\* "123-456-789"
PhoneDashed == <<"1", "2", "3", "-", "4", "5", "6", "-", "7", "8", "9">>

\* "123456789"
PhonePlain == <<"1", "2", "3", "4", "5", "6", "7", "8", "9">>

\* "12-34"
PhoneShort == <<"1", "2", "-", "3", "4">>

\* "1234-5678²"
PhoneSuper == <<"1", "2", "3", "4", "-", "5", "6", "7", "8", SuperscriptTwo>>

\* "987654321"
PhoneOther == <<"9", "8", "7", "6", "5", "4", "3", "2", "1">>

PhoneInputs == {PhoneDashed, PhoneShort, PhoneSuper}

EditInputs == {PhoneShort, PhoneOther}

\* Values to look for: every stored value of the record, and one that may be absent.
OldValues(rec) == {rec.phones[i] : i \in 1..Len(rec.phones)} \cup {PhonePlain}

(***************************************************************************)
(* Actions: the Record and AddressBook operations, called directly.        *)
(***************************************************************************)
\* Phone(phone): construct a Phone and read its value.
ConstructPhone(phone) ==
    /\ pc = "api"
    /\ last' = [Call("Phone") EXCEPT !.a = phone, !.exc = PhoneInit(phone).exc]
    /\ ret' = IF PhoneInit(phone).exc = "none"
              THEN [NoRet EXCEPT !.kind = "str", !.s = PhoneInit(phone).value]
              ELSE NoRet
    /\ UNCHANGED <<data, files, out, pc>>

\* address_book.add_record(Record(name, birthday_value))
AddRecord(name, birthday_value) ==
    /\ pc = "api"
    /\ data' = add_record(data, RecordInit(name, birthday_value))
    /\ last' = [Call("add_record") EXCEPT !.key = name, !.bv = birthday_value]
    /\ ret' = NoRet
    /\ UNCHANGED <<files, out, pc>>

\* address_book.data[key].add_phone(phone_value)
AddPhone(key, phone_value, max) ==
    /\ pc = "api"
    /\ key \in Keys(data)
    /\ Len(Lookup(data, key).phones) < max
    /\ LET r == add_phone(Lookup(data, key), phone_value)
       IN  /\ data' = DictSet(data, key, r.rec)
           /\ last' = [Call("add_phone") EXCEPT !.key = key, !.a = phone_value,
                                                !.exc = r.exc]
    /\ ret' = NoRet
    /\ UNCHANGED <<files, out, pc>>

\* address_book.data[key].remove_phone(phone_value)
RemovePhone(key, phone_value) ==
    /\ pc = "api"
    /\ key \in Keys(data)
    /\ data' = DictSet(data, key, remove_phone(Lookup(data, key), phone_value))
    /\ last' = [Call("remove_phone") EXCEPT !.key = key, !.a = phone_value]
    /\ ret' = NoRet
    /\ UNCHANGED <<files, out, pc>>

\* address_book.data[key].edit_phone(old_phone_value, new_phone_value)
EditPhone(key, old_phone_value, new_phone_value) ==
    /\ pc = "api"
    /\ key \in Keys(data)
    /\ LET r == edit_phone(Lookup(data, key), old_phone_value, new_phone_value)
       IN  /\ data' = DictSet(data, key, r.rec)
           /\ last' = [Call("edit_phone") EXCEPT !.key = key, !.a = old_phone_value,
                                                 !.b = new_phone_value, !.exc = r.exc]
    /\ ret' = NoRet
    /\ UNCHANGED <<files, out, pc>>

InitApi ==
    /\ data = <<>>
    /\ files = Missing
    /\ last = NoCall
    /\ ret = NoRet
    /\ out = NoOut
    /\ pc = "api"

(***************************************************************************)
(* Inputs and actions of the birthday operations.                          *)
(***************************************************************************)
\* "2000-02-29": a real date
Day20000229 == <<"2", "0", "0", "0", "-", "0", "2", "-", "2", "9">>

\* "2001-02-29": the format of a date, but no real date
Day20010229 == <<"2", "0", "0", "1", "-", "0", "2", "-", "2", "9">>

\* "1990-5-17": accepted by strptime although the month has one digit
Day1990517 == <<"1", "9", "9", "0", "-", "5", "-", "1", "7">>

\* "1990-05-17"
Day19900517 == <<"1", "9", "9", "0", "-", "0", "5", "-", "1", "7">>

\* "next week"
DayWords == <<"n", "e", "x", "t", " ", "w", "e", "e", "k">>

BirthdayInputs ==
    {NoneValue, StrValue(<<>>), StrValue(Day20000229), StrValue(Day20010229),
     StrValue(Day1990517), StrValue(Day19900517), StrValue(DayWords),
     DateValue(2000, 2, 29), DateValue(1990, 5, 17), DateValue(1999, 12, 31),
     DateValue(2001, 1, 1)}

Todays ==
    {[y |-> 2023, m |-> 2, d |-> 28], [y |-> 2023, m |-> 3, d |-> 1],
     [y |-> 2023, m |-> 5, d |-> 17], [y |-> 2023, m |-> 12, d |-> 31],
     [y |-> 2024, m |-> 1, d |-> 1], [y |-> 2024, m |-> 1, d |-> 2],
     [y |-> 2024, m |-> 2, d |-> 29], [y |-> 2024, m |-> 3, d |-> 1],
     [y |-> 2024, m |-> 12, d |-> 31]}

\* Birthday(value): construct a Birthday and read its value.
ConstructBirthday(value) ==
    /\ pc = "api"
    /\ last' = [Call("Birthday") EXCEPT !.bv = value, !.exc = BirthdayInit(value).exc]
    /\ ret' = NoRet
    /\ UNCHANGED <<data, files, out, pc>>

\* address_book.data[key].birthday.value = value; with no Birthday the attribute
\* access on None raises AttributeError.
SetBirthday(key, value) ==
    /\ pc = "api"
    /\ key \in Keys(data)
    /\ LET rec == Lookup(data, key)
           set == BirthdaySetValue(rec.birthday, value)
       IN  IF rec.birthday.kind = "None"
           THEN /\ data' = data
                /\ last' = [Call("set_birthday") EXCEPT !.key = key, !.bv = value,
                                                        !.exc = "AttributeError"]
           ELSE /\ data' = DictSet(data, key, [rec EXCEPT !.birthday = set.value])
                /\ last' = [Call("set_birthday") EXCEPT !.key = key, !.bv = value,
                                                        !.exc = set.exc]
    /\ ret' = NoRet
    /\ UNCHANGED <<files, out, pc>>

\* address_book.data[key].days_to_birthday() on the day `today`
DaysToBirthday(key, today) ==
    /\ pc = "api"
    /\ key \in Keys(data)
    /\ LET r == days_to_birthday(Lookup(data, key), today)
       IN  /\ last' = [Call("days_to_birthday") EXCEPT !.key = key, !.today = today,
                                                       !.exc = r.exc]
           /\ ret' = [NoRet EXCEPT !.kind = r.kind, !.n = r.n]
    /\ UNCHANGED <<data, files, out, pc>>

NextBirthday ==
    \/ \E v \in BirthdayInputs : ConstructBirthday(v)
    \/ \E n \in Names, v \in BirthdayInputs : AddRecord(n, v)
    \/ \E k \in Names, v \in BirthdayInputs : SetBirthday(k, v)
    \/ \E k \in Names, t \in Todays : DaysToBirthday(k, t)

SpecBirthday == InitApi /\ [][NextBirthday]_vars

(***************************************************************************)
(* Inputs and actions of search.                                           *)
(***************************************************************************)
\* A criterion key search_records does not recognize: 'city'
CityField == <<"c", "i", "t", "y">>

Criterion(field, value) == [field |-> field, value |-> value]

SingleCriteria ==
    {Criterion(NameField, n) : n \in Names}
    \cup {Criterion(PhoneField, p) : p \in {PhonePlain, PhoneOther, PhoneDashed}}
    \cup {Criterion(CityField, Al)}

\* The criteria dicts: at most two items, with distinct keys, in either order.
CriteriaInputs ==
    {<<>>} \cup {<<c>> : c \in SingleCriteria}
    \cup {<<pair[1], pair[2]>> :
             pair \in {q \in SingleCriteria \X SingleCriteria : q[1].field # q[2].field}}

\* address_book.search_records(criteria)
SearchRecords(criteria) ==
    /\ pc = "api"
    /\ last' = [Call("search_records") EXCEPT !.crit = criteria]
    /\ ret' = [NoRet EXCEPT !.kind = "list", !.recs = search_records(data, criteria)]
    /\ UNCHANGED <<data, files, out, pc>>

NextSearch ==
    \/ \E n \in Names : AddRecord(n, NoneValue)
    \/ \E k \in Names, p \in {PhoneDashed, PhoneOther} : AddPhone(k, p, MaxPhones)
    \/ \E c \in CriteriaInputs : SearchRecords(c)

SpecSearch == InitApi /\ [][NextSearch]_vars

(***************************************************************************)
(* Actions of persistence.                                                 *)
(***************************************************************************)
\* address_book.save_to_file("address_book.pkl")
SaveToFile ==
    /\ pc = "api"
    /\ files' = save_to_file(data)
    /\ last' = Call("save_to_file")
    /\ ret' = NoRet
    /\ UNCHANGED <<data, out, pc>>

\* address_book.load_from_file("address_book.pkl"); a missing file is reported by print.
LoadFromFile ==
    /\ pc = "api"
    /\ data' = load_from_file(files)
    /\ last' = [Call("load_from_file") EXCEPT !.prev = last.op]
    /\ ret' = NoRet
    /\ out' = IF files.exists THEN out
              ELSE [NoOut EXCEPT !.call = "print",
                                 !.msg = "File not found. Creating a new address book."]
    /\ UNCHANGED <<files, pc>>

NextStore ==
    \/ \E n \in Names, v \in {NoneValue, StrValue(Day20010229)} : AddRecord(n, v)
    \/ \E k \in Names, p \in {PhoneDashed, PhoneSuper} : AddPhone(k, p, MaxStorePhones)
    \/ SaveToFile
    \/ LoadFromFile

SpecStore == InitApi /\ [][NextStore]_vars

(***************************************************************************)
(* main(): the command loop.  Each step reads one line and runs the branch *)
(* of the if/elif chain that the lower-cased line selects.  An exception   *)
(* no handler catches leaves main(): pc = "crashed".                       *)
(***************************************************************************)
WHello == <<"h", "e", "l", "l", "o">>

WAdd == <<"a", "d", "d">>

WEdit == <<"e", "d", "i", "t">>

WSearch == <<"s", "e", "a", "r", "c", "h">>

WShowAll == <<"s", "h", "o", "w", " ", "a", "l", "l">>

WSave == <<"s", "a", "v", "e">>

WGoodBye == <<"g", "o", "o", "d", " ", "b", "y", "e">>

WClose == <<"c", "l", "o", "s", "e">>

WExit == <<"e", "x", "i", "t">>

\* The branch of the if/elif chain taken for a (lower-cased) command.
Dispatch(command) ==
    IF command = WHello THEN "hello"
    ELSE IF StartsWith(command, WAdd) THEN "add"
    ELSE IF StartsWith(command, WEdit) THEN "edit"
    ELSE IF StartsWith(command, WSearch) THEN "search"
    ELSE IF command = WShowAll THEN "show all"
    ELSE IF command = WSave THEN "save"
    ELSE IF command \in {WGoodBye, WClose, WExit} THEN "exit"
    ELSE "invalid"

\* The loop `for phone in phones: record.add_phone(phone)`, from phone i on; the
\* first exception ends it.
RECURSIVE AddPhones(_, _, _)
AddPhones(rec, phones, i) ==
    IF i > Len(phones) THEN [exc |-> "none", rec |-> rec]
    ELSE IF add_phone(rec, phones[i]).exc # "none"
    THEN [exc |-> add_phone(rec, phones[i]).exc, rec |-> rec]
    ELSE AddPhones(add_phone(rec, phones[i]).rec, phones, i + 1)

NotDigit(s) == ~IsDigit(s)

Message(msg) == [NoOut EXCEPT !.call = "display_message", !.msg = msg]

Contacts(recs) == [NoOut EXCEPT !.call = "display_contacts", !.recs = recs]

\* An exception propagates out of main().
Raise(op, raw, exc) ==
    /\ last' = [Call(op) EXCEPT !.line = raw, !.exc = exc]
    /\ pc' = "crashed"
    /\ ret' = NoRet
    /\ UNCHANGED <<data, files, out>>

\* address_book = AddressBook(); address_book.load_from_file("address_book.pkl")
MainStart ==
    /\ pc = "start"
    /\ data' = load_from_file(files)
    /\ out' = IF files.exists THEN out
              ELSE [NoOut EXCEPT !.call = "print",
                                 !.msg = "File not found. Creating a new address book."]
    /\ last' = Call("main")
    /\ ret' = NoRet
    /\ pc' = "loop"
    /\ UNCHANGED files

CmdHello(raw) ==
    /\ pc = "loop"
    /\ Dispatch(StrLower(raw)) = "hello"
    /\ out' = Message("How can I help you?")
    /\ last' = [Call("hello") EXCEPT !.line = raw]
    /\ ret' = NoRet
    /\ UNCHANGED <<data, files, pc>>

CmdAdd(raw) ==
    /\ pc = "loop"
    /\ Dispatch(StrLower(raw)) = "add"
    /\ LET tokens == Split(StrLower(raw))
       IN  IF Len(tokens) < 2
           THEN Raise("add", raw, "ValueError")
           ELSE LET name == tokens[2]
                    args == SubSeq(tokens, 3, Len(tokens))
                    phones == SelectSeq(args, IsDigit)
                    birthday == SelectSeq(args, NotDigit)
                    record == RecordInit(name, IF birthday # <<>>
                                               THEN StrValue(birthday[1])
                                               ELSE NoneValue)
                    added == AddPhones(record, phones, 1)
                IN  IF name \notin Keys(data)
                    THEN IF added.exc # "none"
                         THEN Raise("add", raw, added.exc)
                         ELSE /\ data' = add_record(data, added.rec)
                              /\ out' = Message("Contact {name} with phone {phones} added.")
                              /\ last' = [Call("add") EXCEPT !.line = raw, !.key = name]
                              /\ ret' = NoRet
                              /\ UNCHANGED <<files, pc>>
                    ELSE /\ out' = Message("Contact {name} already exists. Use 'edit' to modify.")
                         /\ last' = [Call("add") EXCEPT !.line = raw, !.key = name]
                         /\ ret' = NoRet
                         /\ UNCHANGED <<data, files, pc>>

CmdEdit(raw) ==
    /\ pc = "loop"
    /\ Dispatch(StrLower(raw)) = "edit"
    /\ LET tokens == Split(StrLower(raw))
       IN  IF Len(tokens) # 4
           THEN Raise("edit", raw, "ValueError")
           ELSE LET name == tokens[2]
                    old_phone == tokens[3]
                    new_phone == tokens[4]
                IN  IF name \in Keys(data)
                    THEN LET r == edit_phone(Lookup(data, name), old_phone, new_phone)
                         IN  IF r.exc # "none"
                             THEN Raise("edit", raw, r.exc)
                             ELSE /\ data' = DictSet(data, name, r.rec)
                                  /\ out' = Message("Phone number for {name} changed to {new_phone}.")
                                  /\ last' = [Call("edit") EXCEPT !.line = raw, !.key = name,
                                                                  !.a = old_phone, !.b = new_phone]
                                  /\ ret' = NoRet
                                  /\ UNCHANGED <<files, pc>>
                    ELSE /\ out' = Message("Contact {name} not found.")
                         /\ last' = [Call("edit") EXCEPT !.line = raw, !.key = name,
                                                         !.a = old_phone, !.b = new_phone]
                         /\ ret' = NoRet
                         /\ UNCHANGED <<data, files, pc>>

CmdSearch(raw) ==
    /\ pc = "loop"
    /\ Dispatch(StrLower(raw)) = "search"
    /\ LET tokens == Split(StrLower(raw))
       IN  IF Len(tokens) # 3
           THEN Raise("search", raw, "ValueError")
           ELSE LET criteria == <<[field |-> tokens[2], value |-> tokens[3]]>>
                    results == search_records(data, criteria)
                IN  /\ out' = IF results # <<>> THEN Contacts(results)
                              ELSE Message("No matching contacts found.")
                    /\ last' = [Call("search") EXCEPT !.line = raw, !.crit = criteria]
                    /\ ret' = NoRet
                    /\ UNCHANGED <<data, files, pc>>

CmdShowAll(raw) ==
    /\ pc = "loop"
    /\ Dispatch(StrLower(raw)) = "show all"
    /\ out' = Contacts(Values(data))
    /\ last' = [Call("show all") EXCEPT !.line = raw]
    /\ ret' = NoRet
    /\ UNCHANGED <<data, files, pc>>

CmdSave(raw) ==
    /\ pc = "loop"
    /\ Dispatch(StrLower(raw)) = "save"
    /\ files' = save_to_file(data)
    /\ out' = Message("Address book saved successfully.")
    /\ last' = [Call("save") EXCEPT !.line = raw]
    /\ ret' = NoRet
    /\ UNCHANGED <<data, pc>>

CmdExit(raw) ==
    /\ pc = "loop"
    /\ Dispatch(StrLower(raw)) = "exit"
    /\ files' = save_to_file(data)
    /\ out' = Message("Address book saved. Good bye!")
    /\ last' = [Call("exit") EXCEPT !.line = raw]
    /\ ret' = NoRet
    /\ pc' = "done"
    /\ UNCHANGED data

CmdInvalid(raw) ==
    /\ pc = "loop"
    /\ Dispatch(StrLower(raw)) = "invalid"
    /\ out' = [NoOut EXCEPT !.call = "display_error",
                            !.msg = "Invalid command. Please try again."]
    /\ last' = [Call("invalid") EXCEPT !.line = raw]
    /\ ret' = NoRet
    /\ UNCHANGED <<data, files, pc>>

(***************************************************************************)
(* The input lines of main().                                              *)
(***************************************************************************)
Sp == <<" ">>

\* "2001-02-29" again appears as a birthday token; "12" is a phone of two digits.
Two == <<"1", "2">>

Lines ==
    {<<"H">> \o Tail(WHello),                              \* "Hello"
     WAdd \o Sp \o Bob \o Sp \o PhonePlain,                \* "add bob 123456789"
     WAdd \o Sp \o Al \o Sp \o PhoneOther \o Sp \o Day20010229,
                                                           \* "add al 987654321 2001-02-29"
     WAdd \o Sp \o Al \o Sp \o Two,                        \* "add al 12"
     WAdd,                                                 \* "add"
     WAdd \o <<"x">> \o Sp \o Bob \o Sp \o PhonePlain,     \* "addx bob 123456789"
     WEdit \o Sp \o Bob \o Sp \o PhonePlain \o Sp \o Two,  \* "edit bob 123456789 12"
     WEdit \o <<"o", "r">> \o Sp \o Al \o Sp \o PhoneOther \o Sp \o PhonePlain,
                                                           \* "editor al 987654321 123456789"
     WEdit \o Sp \o Bob,                                   \* "edit bob"
     WSearch \o Sp \o PhoneField \o Sp \o PhonePlain,      \* "search phone 123456789"
     WSearch \o Sp \o NameField,                           \* "search name"
     WShowAll,                                             \* "show all"
     WSave,                                                \* "save"
     WGoodBye, WClose, WExit,                              \* "good bye", "close", "exit"
     Sp \o WExit,                                          \* " exit"
     <<"f", "o", "o">>}                                    \* "foo"

\* What the file holds when main() starts: nothing, or the snapshot an earlier run saved.
EarlierBooks ==
    {<<>>, add_record(<<>>, add_phone(RecordInit(Bob, NoneValue), PhonePlain).rec)}

InitMain ==
    /\ data = <<>>
    /\ files \in {Missing} \cup {save_to_file(d) : d \in EarlierBooks}
    /\ last = NoCall
    /\ ret = NoRet
    /\ out = NoOut
    /\ pc = "start"

NextMain ==
    \/ MainStart
    \/ \E raw \in Lines : CmdHello(raw)
    \/ \E raw \in Lines : CmdAdd(raw)
    \/ \E raw \in Lines : CmdEdit(raw)
    \/ \E raw \in Lines : CmdSearch(raw)
    \/ \E raw \in Lines : CmdShowAll(raw)
    \/ \E raw \in Lines : CmdSave(raw)
    \/ \E raw \in Lines : CmdExit(raw)
    \/ \E raw \in Lines : CmdInvalid(raw)

SpecMain == InitMain /\ [][NextMain]_vars

Init == InitApi

Next ==
    \/ \E p \in PhoneInputs \cup {PhonePlain} : ConstructPhone(p)
    \/ \E n \in Names : AddRecord(n, NoneValue)
    \/ \E k \in Names, p \in PhoneInputs : AddPhone(k, p, MaxPhones)
    \/ \E k \in Keys(data) : \E v \in OldValues(Lookup(data, k)) : RemovePhone(k, v)
    \/ \E k \in Keys(data) : \E v \in OldValues(Lookup(data, k)) :
          \E p \in EditInputs : EditPhone(k, v, p)

Spec == Init /\ [][Next]_vars

(***************************************************************************)
(* Properties.                                                             *)
(***************************************************************************)
\* A value of exactly 9 digits, by the code's own notion of a digit (str.isdigit).
NineDigits(v) == Len(v) = 9 /\ \A i \in 1..Len(v) : IsDigitChar(v[i])

\* C1: in every reachable state every Phone of every Record holds exactly 9 digits
\* (edit_phone would have to normalize and check the new value as Phone() does).
C1_EveryPhoneNineDigits ==
    \A i \in 1..Len(data) :
        \A j \in 1..Len(data[i].rec.phones) : NineDigits(data[i].rec.phones[j])

\* C2: a call of add_phone(value), or of edit_phone(old, value) with old among the
\* record's phones, whose value does not filter to 9 digits raises a validation
\* error and leaves the record's phones (and so the whole book) as they were.
C2_InvalidPhoneRejected ==
    [][((\/ last'.op = "add_phone" /\ Len(PhoneNormalize(last'.a)) # 9
         \/ /\ last'.op = "edit_phone"
            /\ FirstIndex(Lookup(data, last'.key).phones, last'.a) # 0
            /\ Len(PhoneNormalize(last'.b)) # 9)
        => (last'.exc = "ValueError" /\ data' = data))]_vars

IsDecimalChar(c) == c \in AsciiDigits

\* What is left of s when every character other than 0-9 is removed.
DecimalDigitsOf(s) == SelectSeq(s, IsDecimalChar)

\* C8: Phone(s) succeeds iff removing everything but the decimal digits 0-9 from s
\* leaves 9 characters; the stored value is then that string of 9 decimal digits,
\* and a Phone built from the stored value stores the same value.
C8_PhoneConstruction ==
    last.op = "Phone" =>
        /\ last.exc = "none" <=> Len(DecimalDigitsOf(last.a)) = 9
        /\ last.exc = "none" =>
              /\ ret.s = DecimalDigitsOf(last.a)
              /\ PhoneInit(ret.s).exc = "none"
              /\ PhoneInit(ret.s).value = ret.s

\* A str of the form YYYY-MM-DD that names a real calendar date.
IsIsoDate(s) ==
    /\ Len(s) = 10
    /\ s[5] = "-" /\ s[8] = "-"
    /\ \A i \in {1, 2, 3, 4, 6, 7, 9, 10} : s[i] \in AsciiDigits
    /\ ValidDate(ParseInt(SubSeq(s, 1, 4)), ParseInt(SubSeq(s, 6, 7)),
                 ParseInt(SubSeq(s, 9, 10)))

\* A stored birthday value that is a valid calendar date: an ISO date str or a date object.
ValidStored(v) ==
    \/ v.kind = "str" /\ IsIsoDate(v.s)
    \/ v.kind = "date" /\ ValidDate(v.date.y, v.date.m, v.date.d)

\* C3: Birthday(s) for a str s succeeds iff s is a YYYY-MM-DD real calendar date, and
\* in every reachable state the birthday of every Record, if present, is a valid date.
C3_BirthdayValidated ==
    /\ (last.op = "Birthday" /\ last.bv.kind = "str")
          => (last.exc = "none" <=> IsIsoDate(last.bv.s))
    /\ \A i \in 1..Len(data) :
          data[i].rec.birthday.kind # "None" => ValidStored(data[i].rec.birthday)

MonthOf(v) == IF v.kind = "str" THEN ParseInt(SubSeq(v.s, 6, 7)) ELSE v.date.m

DayOf(v) == IF v.kind = "str" THEN ParseInt(SubSeq(v.s, 9, 10)) ELSE v.date.d

\* Days from today to the first day on or after today with the given month and day.
DaysToNext(today, m, d) ==
    LET years == {y \in today.y..(today.y + 8) :
                     /\ ValidDate(y, m, d)
                     /\ ToOrdinal([y |-> y, m |-> m, d |-> d]) >= ToOrdinal(today)}
        first == CHOOSE y \in years : \A z \in years : y <= z
    IN  ToOrdinal([y |-> first, m |-> m, d |-> d]) - ToOrdinal(today)

\* C9: days_to_birthday returns None when the Record has no birthday, and for any
\* valid stored birthday and any today an integer in 0..366: the days from today to
\* the next occurrence of the birthday's month and day on or after today.
C9_DaysToBirthday ==
    last.op = "days_to_birthday" =>
        LET b == Lookup(data, last.key).birthday
        IN  IF b.kind = "None"
            THEN last.exc = "none" /\ ret.kind = "None"
            ELSE ValidStored(b) =>
                    /\ last.exc = "none"
                    /\ ret.kind = "int"
                    /\ ret.n >= 0 /\ ret.n <= 366
                    /\ ret.n = DaysToNext(last.today, MonthOf(b), DayOf(b))

\* C6 reads the book by key.
SameBook(d1, d2) ==
    /\ Keys(d1) = Keys(d2)
    /\ \A k \in Keys(d1) :
          /\ Lookup(d1, k).name = Lookup(d2, k).name
          /\ Lookup(d1, k).phones = Lookup(d2, k).phones
          /\ Lookup(d1, k).birthday = Lookup(d2, k).birthday

\* C6: save_to_file followed by load_from_file on the same file yields a book with
\* the same keys and, for each key, the same name, phone values and birthday.
C6_SaveLoadRoundTrip ==
    [][(last.op = "save_to_file" /\ last'.op = "load_from_file")
        => SameBook(data, data')]_vars

\* C6's case: a book of two records, with phones and a birthday, loaded right after
\* it was saved.
C6_Witness ==
    /\ last.op = "load_from_file" /\ last.prev = "save_to_file"
    /\ Len(data) = 2
    /\ \E i \in 1..Len(data) : data[i].rec.phones # <<>>
    /\ \E i \in 1..Len(data) : data[i].rec.birthday.kind = "str"

\* A record satisfies the criteria: every 'name' item equals its name, every 'phone'
\* item equals one of its phones; items with other keys ask nothing.
Satisfies(rec, criteria) ==
    \A i \in 1..Len(criteria) :
        /\ criteria[i].field = NameField => rec.name = criteria[i].value
        /\ criteria[i].field = PhoneField =>
              criteria[i].value \in {rec.phones[j] : j \in 1..Len(rec.phones)}

Expected(d, criteria) ==
    LET yes(rec) == Satisfies(rec, criteria)
    IN  SelectSeq(Values(d), yes)

\* C7: search_records(criteria) returns exactly the records that satisfy every
\* criterion (unknown keys ignored), and leaves the AddressBook unchanged.
C7_SearchExact ==
    [][(last'.op = "search_records")
        => (data' = data /\ ret'.recs = Expected(data, last'.crit))]_vars

\* C7's case: two records hold the phone searched for, and the name criterion
\* picks one of them.
C7_Witness ==
    /\ last.op = "search_records"
    /\ Len(last.crit) = 2
    /\ {last.crit[1].field, last.crit[2].field} = {NameField, PhoneField}
    /\ Len(data) = 2
    /\ \E c \in {last.crit[1], last.crit[2]} :
          /\ c.field = PhoneField
          /\ \A i \in 1..Len(data) : \E j \in 1..Len(data[i].rec.phones) :
                data[i].rec.phones[j] = c.value
    /\ Len(ret.recs) = 1

ExitCommands == {WGoodBye, WClose, WExit}

\* C4: the command loop ends only on an exit command; an error raised by any other
\* command is reported through the presentation boundary and the loop goes on.
C4_LoopEndsOnlyOnExit ==
    /\ pc \in {"start", "loop", "done"}
    /\ pc = "done" => StrLower(last.line) \in ExitCommands
    /\ last.exc # "none" => (pc = "loop" /\ out.call = "display_error")

\* C5: whenever the loop has ended, what the storage holds is the in-memory book.
C5_PersistedAtTermination ==
    pc \in {"done", "crashed"} => load_from_file(files) = data

\* The command surface: whether a (lower-cased) line is one of the listed commands.
Listed(command) ==
    LET tokens == Split(command)
    IN  \/ command \in {WHello, WShowAll, WSave} \cup ExitCommands
        \/ Len(tokens) >= 2 /\ tokens[1] = WAdd
        \/ Len(tokens) = 4 /\ tokens[1] = WEdit
        \/ Len(tokens) = 3 /\ tokens[1] = WSearch

\* C10: a line that is none of the listed commands is reported as an invalid-command
\* error and leaves the address book unchanged (stated here for the steps that
\* raise nothing, so that only the dispatch decides it).
C10_UnlistedIsInvalid ==
    [][(pc = "loop" /\ last'.exc = "none" /\ ~Listed(StrLower(last'.line)))
        => (out'.call = "display_error" /\ data' = data)]_vars

====
